---- MODULE Spec2Model ----
(***************************************************************************)
(* State-machine model of homebridge-ha-composite:                         *)
(*   - HACompositePlatform (src/src/platform.ts): connectToBridge,         *)
(*     configureAccessory, discoverDevices and the didFinishLaunching      *)
(*     promise chain;                                                      *)
(*   - VacuumAccessory (src/unnamed/part_000): setOn, getOn,               *)
(*     getBatteryLevel and their in-flight remote calls.                   *)
(*                                                                         *)
(* JavaScript `undefined` is the integer Undefined; HomeKit instance ids   *)
(* (aid, iid) are integers >= 1, as the HAP protocol requires.  Type       *)
(* UUIDs are sequences of one-character strings.  The registry Map is a    *)
(* function whose domain is the set of keys.                               *)
(***************************************************************************)
EXTENDS Integers, Sequences, FiniteSets, Bags, TLC

\* ------------------------------------------------------------------ bounds
MaxLaunches == 2    \* didFinishLaunching events delivered to the platform
MaxAgain    == 1    \* further direct calls of the public discoverDevices()
MaxPending  == 2    \* remote calls of the handlers in flight at one time
MaxTypeLen  == 3    \* characters of a type string handed to endsWithShort

\* ------------------------------------------------------- values and helpers
Undefined == 0 - 1

Falsy(v) == v = Undefined \/ v = 0

\* String(accessoryAid) and the template literal `${aid}.${iid}`
String(n) == ToString(n)

generate(s) == "uuid:" \o s

\* variant: the two ids in the opposite order
AddressKey_swapped(aid, iid) == String(iid) \o "." \o String(aid)

AddressKey(aid, iid) == String(aid) \o "." \o String(iid)

toUpperCase(c) ==
  CASE c = "a" -> "A" [] c = "b" -> "B" [] c = "c" -> "C"
    [] c = "d" -> "D" [] c = "e" -> "E" [] c = "f" -> "F"
    [] OTHER -> c

UpperSeq(s) == [i \in 1..Len(s) |-> toUpperCase(s[i])]

endsWith(s, suffix) ==
  /\ Len(suffix) <= Len(s)
  /\ SubSeq(s, Len(s) - Len(suffix) + 1, Len(s)) = suffix

endsWithShort(uuid, code) == endsWith(uuid, code) \/ endsWith(uuid, UpperSeq(code))

SwitchCode  == <<"4", "9">>
BatteryCode == <<"9", "6">>
OnCode      == <<"2", "5">>
LevelCode   == <<"6", "8">>

\* ------------------------------------------------- bridge snapshots (inputs)
Ch(t, iid) == [type |-> t, iid |-> iid]

\* iterable = FALSE models a service whose `characteristics` is missing:
\* `for (const ch of svc.characteristics)` then throws a TypeError.
Svc(t, chars) == [type |-> t, characteristics |-> chars, iterable |-> TRUE]

BadSvc(t) == [type |-> t, characteristics |-> <<>>, iterable |-> FALSE]

Acc(aid, svcs) == [aid |-> aid, services |-> svcs]

T49 == <<"0", "0", "4", "9">>
T96 == <<"0", "0", "9", "6">>
T25 == <<"0", "0", "2", "5">>
T68 == <<"0", "0", "6", "8">>
T3E == <<"0", "0", "3", "E">>
T23 == <<"0", "0", "2", "3">>

\* the end-to-end scenario: aid 5, On iid 8, BatteryLevel iid 9
Vac5 == Acc(5, << Svc(T3E, << Ch(T23, 2) >>),
                  Svc(T49, << Ch(T25, 8) >>),
                  Svc(T96, << Ch(T68, 9) >>) >>)

\* duplicate On characteristics, no BatteryLevel characteristic
Vac7 == Acc(7, << Svc(T49, << Ch(T25, 4), Ch(T23, 5), Ch(T25, 6) >>),
                  Svc(T96, << Ch(T23, 7) >>) >>)

\* no On characteristic, duplicate BatteryLevel characteristics
Vac6 == Acc(6, << Svc(T96, << Ch(T68, 3), Ch(T68, 4) >>),
                  Svc(T49, << Ch(T23, 5) >>) >>)

\* the accessory of the end-to-end scenario once its Battery service has
\* lost its characteristics
Vac5NoLevel == Acc(5, << Svc(T49, << Ch(T25, 8) >>),
                         Svc(T96, << >>) >>)

\* a switch without a battery service: never a candidate
Lamp3 == Acc(3, << Svc(T49, << Ch(T25, 2) >>) >>)

\* a battery without a switch service: never a candidate
Cell2 == Acc(2, << Svc(T96, << Ch(T68, 2) >>) >>)

\* a candidate whose Switch service has no characteristics array
Broken4 == Acc(4, << BadSvc(T49), Svc(T96, << Ch(T68, 9) >>) >>)

Graphs ==
  { <<>>,
    << Vac5 >>,
    << Lamp3, Vac7, Vac5 >>,
    << Lamp3, Cell2 >>,
    << Vac6 >>,
    << Vac5NoLevel >>,
    << Broken4 >> }

\* accessories the host may have persisted in an earlier run
CachedAccessories ==
  { [UUID |-> generate(String(5)),
     context |-> [accessoryAid |-> 5, onCharacteristic |-> 2,
                  batteryCharacteristic |-> 3]],
    [UUID |-> generate(String(9)),
     context |-> [accessoryAid |-> 9, onCharacteristic |-> 8,
                  batteryCharacteristic |-> 9]] }

Configs == {"absent", "incomplete", "complete"}

AllAids ==
  { g[i].aid : <<g, i>> \in UNION { {g} \X DOMAIN g : g \in Graphs } }
    \cup { a.context.accessoryAid : a \in CachedAccessories }

AllUUIDs == { generate(String(a)) : a \in AllAids } \cup { a.UUID : a \in CachedAccessories }

\* ------------------------------------------------------------------- state
VARIABLES
  config,                \* this.config.controller: "absent" | "incomplete" | "complete"
  httpClient,            \* TRUE iff this.httpClient holds a client
  bridgeAccessories,     \* this.bridgeAccessories
  accessories,           \* this.accessories: UUID -> context
  discoveredCacheUUIDs,  \* this.discoveredCacheUUIDs
  pc,                    \* position of the didFinishLaunching promise chain
  launches,              \* didFinishLaunching events delivered so far
  agains,                \* direct discoverDevices() calls made so far
  chainRuns,             \* discoverDevices() calls made by the current chain
  hostRegistry,          \* host side: UUID -> number of accessories it holds
  connect,               \* how the most recent connectToBridge() went
  cycle,                 \* record of the most recent discoverDevices() call
  proxies,               \* reachable VacuumAccessory instances: id -> fields
  instances,             \* VacuumAccessory instances constructed so far
  pending,               \* bag of remote calls the handlers are awaiting
  ret,                   \* what the most recent handler call gave the host
  probe                  \* arguments and results of endsWithShort called on its own

platformVars == <<config, httpClient, bridgeAccessories, accessories,
                  discoveredCacheUUIDs, pc, launches, agains, chainRuns,
                  hostRegistry, connect, cycle>>

proxyVars == <<proxies, instances, pending, ret>>

vars == <<platformVars, proxyVars, probe>>

\* ------------------------------------------------------ Signature matching
hasService(acc, code) ==
  \E i \in DOMAIN acc.services : endsWithShort(acc.services[i].type, code)

IsCandidate(acc) == hasService(acc, SwitchCode) /\ hasService(acc, BatteryCode)

\* variant: the loop does not stop at the first accessory with both services
FindCandidate_last(graph) ==
  IF \E i \in DOMAIN graph : IsCandidate(graph[i])
  THEN CHOOSE i \in DOMAIN graph :
         /\ IsCandidate(graph[i])
         /\ \A j \in (i + 1)..Len(graph) : ~IsCandidate(graph[j])
  ELSE 0

\* index of the accessory the first loop selects, 0 when it selects none
FindCandidate(graph) ==
  IF \E i \in DOMAIN graph : IsCandidate(graph[i])
  THEN CHOOSE i \in DOMAIN graph :
         /\ IsCandidate(graph[i])
         /\ \A j \in 1..(i - 1) : ~IsCandidate(graph[j])
  ELSE 0

\* variant: a later characteristic does not overwrite an earlier capture
RECURSIVE ScanCharacteristics_first(_, _, _, _)
ScanCharacteristics_first(chars, code, i, cur) ==
  IF i > Len(chars) THEN cur
  ELSE ScanCharacteristics_first(chars, code, i + 1,
         IF endsWithShort(chars[i].type, code) /\ cur = Undefined
         THEN chars[i].iid ELSE cur)

RECURSIVE ScanCharacteristics(_, _, _, _)
ScanCharacteristics(chars, code, i, cur) ==
  IF i > Len(chars) THEN cur
  ELSE ScanCharacteristics(chars, code, i + 1,
         IF endsWithShort(chars[i].type, code) THEN chars[i].iid ELSE cur)

RECURSIVE ScanServices(_, _, _)
ScanServices(svcs, i, cap) ==
  IF i > Len(svcs) THEN cap
  ELSE LET svc == svcs[i] IN
       ScanServices(svcs, i + 1,
         IF endsWithShort(svc.type, SwitchCode)
         THEN [cap EXCEPT !.onCharacteristic =
                 ScanCharacteristics(svc.characteristics, OnCode, 1, @)]
         ELSE IF endsWithShort(svc.type, BatteryCode)
         THEN [cap EXCEPT !.batteryCharacteristic =
                 ScanCharacteristics(svc.characteristics, LevelCode, 1, @)]
         ELSE cap)

\* the context discoverDevices stores for the selected accessory
ExtractContext(acc) ==
  ScanServices(acc.services, 1,
    [accessoryAid |-> acc.aid, onCharacteristic |-> Undefined,
     batteryCharacteristic |-> Undefined])

\* iterating the characteristics of a matched service that has none throws
ExtractionThrows(acc) ==
  \E i \in DOMAIN acc.services :
    /\ endsWithShort(acc.services[i].type, SwitchCode)
         \/ endsWithShort(acc.services[i].type, BatteryCode)
    /\ ~acc.services[i].iterable

\* ---------------------------------------------------------- reconciliation
SkipDiscovery(client, graph) == ~client \/ Len(graph) = 0

\* variant: the lookup in the registry is not consulted
Existing_never(acs, uuid) == FALSE

Existing(acs, uuid) == uuid \in DOMAIN acs

\* variant: an address that was not captured leaves the stored one in place
MapSet_keepsOld(acs, uuid, ctx) ==
  [id \in DOMAIN acs \cup {uuid} |->
     IF id # uuid THEN acs[id]
     ELSE IF uuid \notin DOMAIN acs THEN ctx
     ELSE [accessoryAid |-> ctx.accessoryAid,
           onCharacteristic |->
             IF ctx.onCharacteristic = Undefined
             THEN acs[uuid].onCharacteristic ELSE ctx.onCharacteristic,
           batteryCharacteristic |->
             IF ctx.batteryCharacteristic = Undefined
             THEN acs[uuid].batteryCharacteristic ELSE ctx.batteryCharacteristic]]

\* variant: the entry is not stored
MapSet_forgets(acs, uuid, ctx) == acs

MapSet(acs, uuid, ctx) ==
  [id \in DOMAIN acs \cup {uuid} |-> IF id = uuid THEN ctx ELSE acs[id]]

includes(seq, id) == \E i \in DOMAIN seq : seq[i] = id

\* the closing loop: ids of the registry it unregisters and deletes
Retired(acs, seen) == { id \in DOMAIN acs : ~includes(seen, id) }

MapDelete(acs, ids) == [id \in DOMAIN acs \ ids |-> acs[id]]

\* variant: the cached state lives with the accessory, and a later instance
\* for the same accessory starts from it
NewProxy_inherits(uuid) ==
  LET earlier == { i \in DOMAIN proxies : proxies[i].uuid = uuid } IN
  IF earlier = {}
  THEN [uuid |-> uuid, lastOnState |-> FALSE, lastBatteryLevel |-> 100,
        issued |-> FALSE, good |-> 100]
  ELSE proxies[CHOOSE i \in earlier : \A j \in earlier : j <= i]

\* new VacuumAccessory(platform, accessory); issued and good are history:
\* the value of the latest setOn and of the latest numeric battery read
NewProxy(uuid) ==
  [uuid |-> uuid, lastOnState |-> FALSE, lastBatteryLevel |-> 100,
   issued |-> FALSE, good |-> 100]

\* the instance whose handlers the host calls for an accessory: onSet/onGet
\* of a later VacuumAccessory replace those of an earlier one
BoundIn(ps, acs, i) ==
  /\ i \in DOMAIN ps
  /\ ps[i].uuid \in DOMAIN acs
  /\ \A j \in DOMAIN ps : j > i => ps[j].uuid # ps[i].uuid

\* instances still reachable: bound to an accessory of the registry, or
\* awaited by a remote call in flight
Reachable(ps, acs, pend) ==
  [i \in { j \in DOMAIN ps :
             BoundIn(ps, acs, j) \/ \E r \in BagToSet(pend) : r.proxy = j }
     |-> ps[i]]

NoCycle ==
  [kind |-> "none", connect |-> "none", pre |-> <<>>, selected |-> Undefined,
   match |-> "none", threw |-> FALSE,
   registered |-> {}, updated |-> {}, unregistered |-> {}, prevRegistered |-> {}]

\* One call of discoverDevices(); kind names the caller.  The singleton
\* quantifiers bind each intermediate value of the method once.
discoverDevices(kind) ==
  \E c \in {FindCandidate(bridgeAccessories)} :
  LET base == [kind |-> kind, connect |-> connect, pre |-> accessories,
               selected |-> Undefined, match |-> "none", threw |-> FALSE, registered |-> {}, updated |-> {},
               unregistered |-> {}, prevRegistered |-> cycle.registered]
  IN
  IF SkipDiscovery(httpClient, bridgeAccessories) \/ c = 0
  THEN /\ cycle' = base
       /\ UNCHANGED <<accessories, discoveredCacheUUIDs, hostRegistry, proxies,
                      instances>>
  ELSE IF ExtractionThrows(bridgeAccessories[c])
  THEN /\ cycle' = [base EXCEPT !.selected = bridgeAccessories[c].aid,
                             !.threw = TRUE]
       /\ UNCHANGED <<accessories, discoveredCacheUUIDs, hostRegistry, proxies,
                      instances>>
  ELSE
    \E ctx \in {ExtractContext(bridgeAccessories[c])} :
    \E uuid \in {generate(String(ctx.accessoryAid))} :
    \E exists \in {Existing(accessories, uuid)} :
    \E acs1 \in {MapSet(accessories, uuid, ctx)} :
    \E seen1 \in {Append(discoveredCacheUUIDs, uuid)} :
    \E gone \in {Retired(acs1, seen1)} :
    /\ accessories' = MapDelete(acs1, gone)
    /\ discoveredCacheUUIDs' = seen1
    /\ instances' = instances + 1
    /\ proxies' = Reachable(
                    [i \in DOMAIN proxies \cup {instances + 1} |->
                       IF i = instances + 1 THEN NewProxy(uuid) ELSE proxies[i]],
                    MapDelete(acs1, gone), pending)
    /\ hostRegistry' =
         [id \in DOMAIN hostRegistry |->
            LET added == IF id = uuid /\ ~exists THEN 1 ELSE 0
                removed == IF id \in gone THEN 1 ELSE 0
            IN hostRegistry[id] + added - removed]
    /\ cycle' = [base EXCEPT !.selected = ctx.accessoryAid,
                             !.match = uuid,
                             !.registered = IF exists THEN {} ELSE {uuid},
                             !.updated = IF exists THEN {uuid} ELSE {},
                             !.unregistered = gone]

\* ------------------------------------------------------------ platform steps
configureAccessory(a) ==
  /\ pc = "idle"
  /\ a.UUID \notin DOMAIN accessories
  /\ accessories' = MapSet(accessories, a.UUID, a.context)
  /\ hostRegistry' = [hostRegistry EXCEPT ![a.UUID] = 1]
  /\ UNCHANGED <<config, httpClient, bridgeAccessories, discoveredCacheUUIDs,
                 pc, launches, agains, chainRuns, connect, cycle, proxyVars, probe>>

\* variant: the controller configuration is not validated
ConfigUsable_unchecked(cfg) == TRUE

\* the handler starts connectToBridge(), which runs up to its first await
ConfigUsable(cfg) == cfg = "complete"

didFinishLaunching(ctorThrows) ==
  /\ pc \in {"idle", "done"}
  /\ launches < MaxLaunches
  /\ launches' = launches + 1
  /\ chainRuns' = 0
  /\ IF ~ConfigUsable(config)
     THEN pc' = "resolved" /\ connect' = config /\ UNCHANGED httpClient
     ELSE IF ctorThrows
     THEN pc' = "resolved" /\ connect' = "ctorThrew" /\ UNCHANGED httpClient
     ELSE pc' = "awaiting" /\ connect' = "pending" /\ httpClient' = TRUE
  /\ UNCHANGED <<config, bridgeAccessories, accessories, discoveredCacheUUIDs,
                 agains, hostRegistry, cycle, proxyVars, probe>>

getAccessoriesReturns(g) ==
  /\ pc = "awaiting"
  /\ bridgeAccessories' = g
  /\ pc' = "resolved"
  /\ connect' = IF Len(g) = 0 THEN "empty" ELSE "ok"
  /\ UNCHANGED <<config, httpClient, accessories, discoveredCacheUUIDs, launches,
                 agains, chainRuns, hostRegistry, cycle, proxyVars, probe>>

\* variant: the catch block drops the client
getAccessoriesThrows_dropsClient ==
  /\ pc = "awaiting"
  /\ pc' = "resolved"
  /\ connect' = "getThrew"
  /\ httpClient' = FALSE
  /\ UNCHANGED <<config, bridgeAccessories, accessories,
                 discoveredCacheUUIDs, launches, agains, chainRuns, hostRegistry,
                 cycle, proxyVars, probe>>

getAccessoriesThrows ==
  /\ pc = "awaiting"
  /\ pc' = "resolved"
  /\ connect' = "getThrew"
  /\ UNCHANGED <<config, httpClient, bridgeAccessories, accessories,
                 discoveredCacheUUIDs, launches, agains, chainRuns, hostRegistry,
                 cycle, proxyVars, probe>>

\* variant: discovery is not chained on the connect promise
ConnectSettled_unchained == pc \in {"awaiting", "resolved"}

ConnectSettled == pc = "resolved"

\* .then(() => this.discoverDevices())
thenDiscover ==
  /\ ConnectSettled
  /\ discoverDevices("then")
  /\ chainRuns' = chainRuns + 1
  /\ pc' = IF cycle'.threw THEN "catch" ELSE "done"
  /\ UNCHANGED <<config, httpClient, bridgeAccessories, launches, agains,
                 connect, pending, ret, probe>>

\* .catch(() => { ...; this.discoverDevices() })
catchDiscover ==
  /\ pc = "catch"
  /\ discoverDevices("catch")
  /\ chainRuns' = chainRuns + 1
  /\ pc' = "done"
  /\ UNCHANGED <<config, httpClient, bridgeAccessories, launches, agains,
                 connect, pending, ret, probe>>

\* a further call of the public method, between chains
discoverAgain ==
  /\ pc = "done"
  /\ agains < MaxAgain
  /\ agains' = agains + 1
  /\ discoverDevices("again")
  /\ UNCHANGED <<config, httpClient, bridgeAccessories, pc, launches, chainRuns,
                 connect, pending, ret, probe>>

\* ------------------------------------------------ characteristic handlers
\* responses of httpClient.getCharacteristics: it throws, or returns something
Num(n) == [type |-> "number", num |-> n]

Str == [type |-> "string", num |-> Undefined]

NoValue == [type |-> "undefined", num |-> Undefined]

Responses ==
  { [kind |-> "throw", entries |-> <<>>],
    [kind |-> "null",  entries |-> <<>>],
    [kind |-> "array", entries |-> <<>>],
    [kind |-> "array", entries |-> << NoValue >>],
    [kind |-> "array", entries |-> << Str, Num(7) >>],
    [kind |-> "array", entries |-> << Num(42) >>],
    [kind |-> "array", entries |-> << Num(150) >>] }

Bound(i) == BoundIn(proxies, accessories, i)

InFlight == BagCardinality(pending)

NoReturn ==
  [op |-> "none", via |-> "none", status |-> "resolved", on |-> FALSE,
   level |-> Undefined, wantOn |-> FALSE, wantLevel |-> Undefined]

\* via: "local" when the handler made no remote call, else how that call ended
Return(op, via, status) == [NoReturn EXCEPT !.op = op, !.via = via, !.status = status]

\* this.lastOnState = boolValue
OptimisticOn(prev, v) == v

\* the guards in front of the remote call of setOn / getBatteryLevel
CanProxy(ctx, iid, client) == ~Falsy(ctx.accessoryAid) /\ ~Falsy(iid) /\ client

\* target[`${accessoryAid}.${onCharacteristic}`] = boolValue
SetRequest(i, ctx, v) ==
  [op |-> "set", proxy |-> i,
   key |-> AddressKey(ctx.accessoryAid, ctx.onCharacteristic), value |-> v]

\* [`${accessoryAid}.${batteryCharacteristic}`]
GetRequest(i, ctx) ==
  [op |-> "get", proxy |-> i,
   key |-> AddressKey(ctx.accessoryAid, ctx.batteryCharacteristic), value |-> FALSE]

\* variant: the handler also persists the target state in the context
ContextAfterSetOn_persists(ctx, v) ==
  [f \in DOMAIN ctx \cup {"on"} |-> IF f = "on" THEN v ELSE ctx[f]]

\* setOn reads this.accessory.context by destructuring and assigns none of
\* its fields
ContextAfterSetOn(ctx, v) == ctx

setOn(i, v) ==
  /\ Bound(i)
  /\ InFlight < MaxPending
  /\ accessories' = [accessories EXCEPT ![proxies[i].uuid] = ContextAfterSetOn(@, v)]
  /\ LET ctx == accessories[proxies[i].uuid] IN
     /\ proxies' = [proxies EXCEPT ![i].lastOnState = OptimisticOn(@, v),
                                   ![i].issued = v]
     /\ IF CanProxy(ctx, ctx.onCharacteristic, httpClient)
        THEN /\ pending' = pending (+) SetToBag({SetRequest(i, ctx, v)})
             /\ UNCHANGED ret
        ELSE /\ ret' = Return("setOn", "local", "resolved")
             /\ UNCHANGED pending
  /\ UNCHANGED <<config, httpClient, bridgeAccessories, discoveredCacheUUIDs, pc,
                 launches, agains, chainRuns, hostRegistry, connect, cycle,
                 instances, probe>>

\* what the host sees when the awaited setCharacteristics settles
SetOnOutcome(throws) == "resolved"

\* variant: a failed remote write takes the optimistic value back
OnStateAfterSet_rollback(cur, throws) == IF throws THEN ~cur ELSE cur

\* lastOnState once the awaited setCharacteristics has settled
OnStateAfterSet(cur, throws) == cur

\* remote calls the settling of setCharacteristics issues in turn
SetOnFollowUp(r, throws) == EmptyBag

setCharacteristicsSettles(r, throws) ==
  /\ BagIn(r, pending)
  /\ r.op = "set"
  /\ \E rest \in {(pending (-) SetToBag({r})) (+) SetOnFollowUp(r, throws)} :
     \E ps \in {[proxies EXCEPT ![r.proxy].lastOnState = OnStateAfterSet(@, throws)]} :
       /\ pending' = rest
       /\ proxies' = Reachable(ps, accessories, rest)
  /\ ret' = Return("setOn", IF throws THEN "threw" ELSE "returned",
                  SetOnOutcome(throws))
  /\ UNCHANGED <<platformVars, instances, probe>>

getOn(i) ==
  /\ Bound(i)
  /\ ret' = [Return("getOn", "local", "resolved") EXCEPT !.on = proxies[i].lastOnState,
                                                !.wantOn = proxies[i].issued]
  /\ UNCHANGED <<platformVars, proxies, instances, pending, probe>>

getBatteryLevel(i) ==
  /\ Bound(i)
  /\ InFlight < MaxPending
  /\ LET ctx == accessories[proxies[i].uuid] IN
     IF CanProxy(ctx, ctx.batteryCharacteristic, httpClient)
     THEN /\ pending' = pending (+) SetToBag({GetRequest(i, ctx)})
          /\ UNCHANGED ret
     ELSE /\ ret' = [Return("getBatteryLevel", "local", "resolved")
                       EXCEPT !.level = proxies[i].lastBatteryLevel,
                              !.wantLevel = proxies[i].good]
          /\ UNCHANGED pending
  /\ UNCHANGED <<platformVars, proxies, instances, probe>>

\* characteristics[0]?.value throws on a null response and is undefined
\* on an empty one
ReadThrows(resp) == resp.kind \in {"throw", "null"}

FirstValue(resp) ==
  IF Len(resp.entries) = 0 THEN NoValue ELSE resp.entries[1]

\* variant: the first value is stored without the typeof test
BatteryAfter_untyped(cur, resp) ==
  IF ReadThrows(resp) THEN cur ELSE FirstValue(resp).num

\* if (typeof value === 'number') this.lastBatteryLevel = value
BatteryAfter(cur, resp) ==
  IF ~ReadThrows(resp) /\ FirstValue(resp).type = "number"
  THEN FirstValue(resp).num
  ELSE cur

\* variant: the read is not wrapped in try/catch
GetBatteryOutcome_uncaught(resp) ==
  IF ReadThrows(resp) THEN "rejected" ELSE "resolved"

\* what the host sees when the awaited getCharacteristics settles
GetBatteryOutcome(resp) == "resolved"

\* history: the latest numeric value a remote read delivered
GoodAfter(cur, resp) ==
  IF resp.kind = "array" /\ Len(resp.entries) > 0 /\ resp.entries[1].type = "number"
  THEN resp.entries[1].num
  ELSE cur

getCharacteristicsSettles(r, resp) ==
  /\ BagIn(r, pending)
  /\ r.op = "get"
  /\ \E level \in {BatteryAfter(proxies[r.proxy].lastBatteryLevel, resp)} :
     \E good \in {GoodAfter(proxies[r.proxy].good, resp)} :
     \E rest \in {pending (-) SetToBag({r})} :
       /\ pending' = rest
       /\ proxies' = Reachable([proxies EXCEPT ![r.proxy].lastBatteryLevel = level,
                                               ![r.proxy].good = good],
                               accessories, rest)
       /\ ret' = [Return("getBatteryLevel",
                          IF ReadThrows(resp) THEN "threw" ELSE "returned",
                          GetBatteryOutcome(resp))
                    EXCEPT !.level = level, !.wantLevel = good]
  /\ UNCHANGED <<platformVars, instances, probe>>

\* endsWithShort on its own: two calls whose arguments differ only in the
\* case of their letters
Alphabet == {"9", "e", "E"}

TypeStrings == UNION { [1..n -> Alphabet] : n \in 0..MaxTypeLen }

ShortCodes == Alphabet \X Alphabet

SameIgnoringCase(s, t) ==
  /\ Len(s) = Len(t)
  /\ \A i \in 1..Len(s) : toUpperCase(s[i]) = toUpperCase(t[i])

NoProbe ==
  [uuid |-> <<>>, code |-> <<>>, uuid2 |-> <<>>, code2 |-> <<>>,
   called |-> FALSE, first |-> FALSE, second |-> FALSE]

endsWithShortCalled ==
  /\ ~probe.called
  /\ probe' = [probe EXCEPT !.called = TRUE,
                            !.first = endsWithShort(probe.uuid, probe.code),
                            !.second = endsWithShort(probe.uuid2, probe.code2)]
  /\ UNCHANGED <<platformVars, proxyVars>>

Init ==
  /\ probe = NoProbe
  /\ config \in Configs
  /\ httpClient = FALSE
  /\ bridgeAccessories = <<>>
  /\ accessories = <<>>
  /\ discoveredCacheUUIDs = <<>>
  /\ pc = "idle"
  /\ launches = 0
  /\ agains = 0
  /\ chainRuns = 0
  /\ hostRegistry = [id \in AllUUIDs |-> 0]
  /\ connect = "none"
  /\ cycle = NoCycle
  /\ proxies = <<>>
  /\ instances = 0
  /\ pending = EmptyBag
  /\ ret = NoReturn

PlatformNext ==
  \/ \E a \in CachedAccessories : configureAccessory(a)
  \/ \E t \in BOOLEAN : didFinishLaunching(t)
  \/ \E g \in Graphs : getAccessoriesReturns(g)
  \/ getAccessoriesThrows
  \/ thenDiscover
  \/ catchDiscover
  \/ discoverAgain

HandlerNext ==
  \/ \E i \in DOMAIN proxies, v \in BOOLEAN : setOn(i, v)
  \/ \E r \in BagToSet(pending), t \in BOOLEAN : setCharacteristicsSettles(r, t)
  \/ \E i \in DOMAIN proxies : getOn(i)
  \/ \E i \in DOMAIN proxies : getBatteryLevel(i)
  \/ \E r \in BagToSet(pending), x \in Responses : getCharacteristicsSettles(r, x)

Next == PlatformNext \/ HandlerNext

\* the platform, relaunched up to MaxLaunches times, together with the
\* host's characteristic reads and writes
Spec == Init /\ [][Next]_vars

\* the platform alone: no handler step changes a platform variable
PlatformSpec == Init /\ [][PlatformNext]_vars

\* the platform as the host runs it, with a single didFinishLaunching event,
\* together with the host's characteristic reads and writes
SingleLaunchNext ==
  \/ \E a \in CachedAccessories : configureAccessory(a)
  \/ \E t \in BOOLEAN : launches = 0 /\ didFinishLaunching(t)
  \/ \E g \in Graphs : getAccessoriesReturns(g)
  \/ getAccessoriesThrows
  \/ thenDiscover
  \/ catchDiscover
  \/ discoverAgain
  \/ HandlerNext

HandlerSpec == Init /\ [][SingleLaunchNext]_vars

\* the helper of discoverDevices alone, on every pair of argument pairs that
\* are equal up to the case of their letters
MatcherInit ==
  /\ \E u \in TypeStrings, c \in ShortCodes :
       \E u2 \in { t \in TypeStrings : SameIgnoringCase(t, u) } :
       \E c2 \in { d \in ShortCodes : SameIgnoringCase(d, c) } :
         probe = [NoProbe EXCEPT !.uuid = u, !.code = c, !.uuid2 = u2, !.code2 = c2]
  /\ config = "absent"
  /\ httpClient = FALSE
  /\ bridgeAccessories = <<>>
  /\ accessories = <<>>
  /\ discoveredCacheUUIDs = <<>>
  /\ pc = "idle"
  /\ launches = 0
  /\ agains = 0
  /\ chainRuns = 0
  /\ hostRegistry = [id \in AllUUIDs |-> 0]
  /\ connect = "none"
  /\ cycle = NoCycle
  /\ proxies = <<>>
  /\ instances = 0
  /\ pending = EmptyBag
  /\ ret = NoReturn

MatcherNext == endsWithShortCalled

MatcherSpec == MatcherInit /\ [][MatcherNext]_vars

\* ================================================================ claims
FailedConnect == {"absent", "incomplete", "ctorThrew", "getThrew", "empty"}

\* C1: in every discovery cycle, each accessory that was in the registry
\* before the cycle and whose identifier is not this cycle's match (also
\* when nothing matches) is removed from the registry and unregistered once.
C1_Retirement ==
  cycle.kind # "none" =>
    \A id \in DOMAIN cycle.pre :
      id # cycle.match => id \notin DOMAIN accessories /\ id \in cycle.unregistered

\* C2: with the controller configuration missing or incomplete, the cycle
\* that follows connectToBridge unregisters and removes every accessory
\* restored through configureAccessory.
C2_MissingConfigRetiresAll ==
  (cycle.kind = "then" /\ cycle.connect \in {"absent", "incomplete"}) =>
    /\ DOMAIN accessories = {}
    /\ DOMAIN cycle.pre \subseteq cycle.unregistered

\* C3: a second discoverDevices run in a row against the unchanged snapshot
\* leaves the registry (keys and contexts) as the first run left it, and
\* the two runs together register at most one accessory.
C3_Idempotent ==
  cycle.kind \in {"again", "catch"} =>
    /\ accessories = cycle.pre
    /\ Cardinality(cycle.prevRegistered) + Cardinality(cycle.registered) <= 1
    /\ cycle.match # "none" => cycle.match \in DOMAIN accessories

C3_Witness ==
  /\ cycle.kind = "again"
  /\ cycle.prevRegistered = {generate("5")}
  /\ cycle.updated = {generate("5")}
  /\ DOMAIN accessories = {generate("5")}
  /\ accessories[generate("5")] =
       [accessoryAid |-> 5, onCharacteristic |-> 8, batteryCharacteristic |-> 9]

\* C4: registerPlatformAccessories is never called for an identifier the
\* registry already holds, so the host holds at most one accessory per
\* identifier, and exactly the accessories of the registry.
C4_NoDuplicateRegistration ==
  /\ \A id \in cycle.registered : id \notin DOMAIN cycle.pre
  /\ \A id \in DOMAIN hostRegistry :
       /\ hostRegistry[id] <= 1
       /\ hostRegistry[id] = 1 <=> id \in DOMAIN accessories

C4_Witness ==
  /\ cycle.kind = "then"
  /\ cycle.updated = {generate("5")}
  /\ generate("5") \in DOMAIN cycle.pre
  /\ cycle.registered = {}
  /\ hostRegistry[generate("5")] = 1

\* C5: every return of setOn, getOn and getBatteryLevel to the host is a
\* resolution, never a rejection, whatever the remote call did; getOn and
\* getBatteryLevel resolve with a value; every awaited remote call can settle.
C5_TotalHandlers ==
  /\ ret.status = "resolved"
  /\ ret.op = "getOn" => ret.on \in BOOLEAN
  /\ ret.op = "getBatteryLevel" => ret.level # Undefined
  /\ \A r \in BagToSet(pending) :
       \/ r.op = "set" /\ ENABLED setCharacteristicsSettles(r, TRUE)
       \/ r.op = "get" /\ \A x \in Responses : ENABLED getCharacteristicsSettles(r, x)

C5_Witness ==
  /\ ret.op = "getBatteryLevel"
  /\ ret.via = "threw"
  /\ ret.status = "resolved"
  /\ ret.level = 100

\* C6: getOn returns the value of the most recently issued setOn of its
\* instance (false when there was none), whether that write is pending,
\* succeeded, was skipped or threw; no settling of a remote write changes it.
C6_OptimisticOn ==
  /\ ret.op = "getOn" => ret.on = ret.wantOn
  /\ \A i \in DOMAIN proxies : proxies[i].lastOnState = proxies[i].issued

C6_Witness ==
  /\ ret.op = "getOn"
  /\ ret.on = TRUE
  /\ \E r \in BagToSet(pending) : r.op = "set" /\ r.value = FALSE
  /\ \E r \in BagToSet(pending) : r.op = "set" /\ r.value = TRUE

\* C7: a setOn(v) step puts exactly one setCharacteristics call in flight,
\* keyed "<accessoryAid>.<onCharacteristic>" with value v, when the context
\* holds both ids and a client exists, and none otherwise; the settling of
\* a write puts no further call in flight.
C7_RemoteWriteAddressing ==
  [][ /\ \A i \in DOMAIN proxies, v \in BOOLEAN :
           setOn(i, v) =>
             LET ctx == accessories[proxies[i].uuid] IN
             IF /\ ctx.accessoryAid # Undefined
                /\ ctx.onCharacteristic # Undefined
                /\ httpClient
             THEN pending' = pending (+) SetToBag({
                    [op |-> "set", proxy |-> i, value |-> v,
                     key |-> ToString(ctx.accessoryAid) \o "."
                               \o ToString(ctx.onCharacteristic)]})
             ELSE pending' = pending
      /\ \A r \in BagToSet(pending), t \in BOOLEAN :
           setCharacteristicsSettles(r, t) =>
             BagCardinality(pending') = BagCardinality(pending) - 1
    ]_vars

C7_Witness ==
  /\ \E r \in BagToSet(pending) : r.op = "set" /\ r.key = "5.8" /\ r.value = TRUE
  /\ accessories[generate("5")].onCharacteristic = 8

\* C8: getBatteryLevel returns the value of the most recent remote read
\* that delivered a number (100 when there was none); a skipped read, a
\* read that throws and a response without a numeric first value leave
\* lastBatteryLevel as it was.
C8_LastKnownGoodBattery ==
  /\ ret.op = "getBatteryLevel" => ret.level = ret.wantLevel
  /\ \A i \in DOMAIN proxies : proxies[i].lastBatteryLevel = proxies[i].good

C8_Witness ==
  /\ ret.op = "getBatteryLevel"
  /\ ret.via = "threw"
  /\ ret.level = 42

C10_ConnectBeforeReconcile ==
  [][ chainRuns' = chainRuns + 1 =>
        /\ pc \in {"resolved", "catch"}
        /\ connect # "pending"
        /\ cycle'.connect \in FailedConnect \cup {"ok"}
    ]_vars

C10_Witness ==
  /\ pc = "done"
  /\ chainRuns = 1
  /\ cycle.kind = "then"
  /\ cycle.connect = "ok"
  /\ cycle.registered # {}

\* C11: every discoverDevices call selects the first accessory of the
\* snapshot, in snapshot order, that has a service whose type ends in "49"
\* and a service whose type ends in "96", and reports its identifier unless
\* the extraction throws; when no accessory has both, it selects none and
\* reports no match.
C11_FirstMatchWins ==
  [][ (chainRuns' = chainRuns + 1 \/ agains' = agains + 1) =>
        LET g == bridgeAccessories
            Ends(t, a, b) == Len(t) >= 2 /\ t[Len(t) - 1] = a /\ t[Len(t)] = b
            Both(acc) ==
              /\ \E k \in DOMAIN acc.services : Ends(acc.services[k].type, "4", "9")
              /\ \E k \in DOMAIN acc.services : Ends(acc.services[k].type, "9", "6")
        IN IF \E i \in DOMAIN g : Both(g[i])
           THEN \E i \in DOMAIN g :
                  /\ Both(g[i])
                  /\ \A j \in 1..(i - 1) : ~Both(g[j])
                  /\ cycle'.selected = g[i].aid
                  /\ \/ cycle'.threw /\ cycle'.match = "none"
                     \/ /\ cycle'.match = "uuid:" \o ToString(g[i].aid)
                        /\ cycle'.match \in DOMAIN accessories'
           ELSE /\ cycle'.selected = Undefined
                /\ cycle'.match = "none"
                /\ accessories' = accessories
    ]_vars

C11_Witness ==
  /\ bridgeAccessories = << Lamp3, Vac7, Vac5 >>
  /\ cycle.selected = 7
  /\ cycle.match = generate("7")
  /\ generate("7") \in DOMAIN accessories

\* C12: when a discoverDevices call stores a context, then for the Switch
\* service of the selected accessory that holds characteristics whose type
\* ends in "25", the stored onCharacteristic is the iid of the last of them
\* in the service's order; likewise for the Battery service, "68" and
\* batteryCharacteristic.
C12_LastDuplicateWins ==
  [][ ((chainRuns' = chainRuns + 1 \/ agains' = agains + 1) /\ cycle'.match # "none") =>
        LET Ends(t, a, b) == Len(t) >= 2 /\ t[Len(t) - 1] = a /\ t[Len(t)] = b
            Hits(svc, a, b) ==
              { n \in DOMAIN svc.characteristics : Ends(svc.characteristics[n].type, a, b) }
            Last(S) == CHOOSE n \in S : \A m \in S : m <= n
            stored == accessories'[cycle'.match]
        IN \A i \in DOMAIN bridgeAccessories :
             bridgeAccessories[i].aid = cycle'.selected =>
               LET svcs == bridgeAccessories[i].services IN
               \A k \in DOMAIN svcs :
                 /\ ( /\ Ends(svcs[k].type, "4", "9")
                      /\ Hits(svcs[k], "2", "5") # {}
                      /\ \A l \in (k + 1)..Len(svcs) :
                           ~(Ends(svcs[l].type, "4", "9") /\ Hits(svcs[l], "2", "5") # {}) )
                    => stored.onCharacteristic =
                         svcs[k].characteristics[Last(Hits(svcs[k], "2", "5"))].iid
                 /\ ( /\ Ends(svcs[k].type, "9", "6")
                      /\ Hits(svcs[k], "6", "8") # {}
                      /\ \A l \in (k + 1)..Len(svcs) :
                           ~(Ends(svcs[l].type, "9", "6") /\ Hits(svcs[l], "6", "8") # {}) )
                    => stored.batteryCharacteristic =
                         svcs[k].characteristics[Last(Hits(svcs[k], "6", "8"))].iid
    ]_vars

C12_Witness ==
  /\ cycle.selected = 6
  /\ bridgeAccessories = << Vac6 >>
  /\ Vac6.services[1].characteristics = << Ch(T68, 3), Ch(T68, 4) >>
  /\ accessories[generate("6")].batteryCharacteristic = 4

C14_PartialMatch ==
  [][ ((chainRuns' = chainRuns + 1 \/ agains' = agains + 1) /\ cycle'.match # "none") =>
        LET Ends(t, a, b) == Len(t) >= 2 /\ t[Len(t) - 1] = a /\ t[Len(t)] = b
            Captured(acc, sa, sb, ca, cb) ==
              UNION { { svc.characteristics[n].iid :
                          n \in { m \in DOMAIN svc.characteristics :
                                    Ends(svc.characteristics[m].type, ca, cb) } } :
                      svc \in { acc.services[k] :
                                  k \in { j \in DOMAIN acc.services :
                                            Ends(acc.services[j].type, sa, sb) } } }
            stored == accessories'[cycle'.match]
        IN /\ cycle'.match \in DOMAIN accessories'
           /\ IF cycle'.match \in DOMAIN accessories
              THEN cycle'.updated = {cycle'.match} /\ cycle'.registered = {}
              ELSE cycle'.registered = {cycle'.match} /\ cycle'.updated = {}
           /\ \A i \in DOMAIN bridgeAccessories :
                bridgeAccessories[i].aid = cycle'.selected =>
                  LET acc == bridgeAccessories[i]
                      on == Captured(acc, "4", "9", "2", "5")
                      level == Captured(acc, "9", "6", "6", "8")
                  IN /\ stored.accessoryAid = acc.aid
                     /\ IF on = {} THEN stored.onCharacteristic = Undefined
                        ELSE stored.onCharacteristic \in on
                     /\ IF level = {} THEN stored.batteryCharacteristic = Undefined
                        ELSE stored.batteryCharacteristic \in level
    ]_vars

C14_Witness ==
  /\ bridgeAccessories = << Vac5NoLevel >>
  /\ cycle.updated = {generate("5")}
  /\ cycle.pre[generate("5")].batteryCharacteristic \in {3, 9}
  /\ accessories[generate("5")] =
       [accessoryAid |-> 5, onCharacteristic |-> 8,
        batteryCharacteristic |-> Undefined]

\* C15: every discoverDevices call that registers or updates an accessory
\* constructs one new VacuumAccessory instance for it; the host's handlers
\* for that accessory are those of the new instance, and its lastOnState is
\* false and its lastBatteryLevel 100, whatever an earlier instance holds.
C15_FreshProxyPerPass ==
  [][ ((chainRuns' = chainRuns + 1 \/ agains' = agains + 1) /\ cycle'.match # "none") =>
        /\ cycle'.registered \cup cycle'.updated = {cycle'.match}
        /\ instances' = instances + 1
        /\ instances' \notin DOMAIN proxies
        /\ instances' \in DOMAIN proxies'
        /\ proxies'[instances'].uuid = cycle'.match
        /\ proxies'[instances'].lastOnState = FALSE
        /\ proxies'[instances'].lastBatteryLevel = 100
        /\ \A i \in DOMAIN proxies' :
             (proxies'[i].uuid = cycle'.match /\ BoundIn(proxies', accessories', i))
               <=> i = instances'
    ]_vars

C15_Witness ==
  /\ cycle.kind = "again"
  /\ cycle.updated = {generate("5")}
  /\ \E i \in DOMAIN proxies :
       /\ i < instances
       /\ proxies[i].uuid = generate("5")
       /\ proxies[i].lastOnState = TRUE
       /\ proxies[i].lastBatteryLevel = 42
  /\ Bound(instances)
  /\ proxies[instances].uuid = generate("5")
  /\ proxies[instances].lastOnState = FALSE
  /\ proxies[instances].lastBatteryLevel = 100

\* C16: the lastBatteryLevel of every VacuumAccessory instance, and every
\* value getBatteryLevel returns, is an integer in 0..100.
C16_BatteryRange ==
  /\ \A i \in DOMAIN proxies : proxies[i].lastBatteryLevel \in 0..100
  /\ ret.op = "getBatteryLevel" => ret.level \in 0..100

C18_SingleTarget ==
  cycle.match # "none" => DOMAIN accessories = {cycle.match}

\* C19: whenever a VacuumAccessory instance exists, this.httpClient is set,
\* so for every instance the host can call, whether setOn and
\* getBatteryLevel make their remote call depends on the ids of the context
\* alone: the "HTTP client not initialised" returns are never taken.
C19_ClientAvailable ==
  /\ instances > 0 => httpClient
  /\ \A i \in DOMAIN proxies :
       /\ httpClient
       /\ Bound(i) =>
            LET ctx == accessories[proxies[i].uuid]
                aidSet == ctx.accessoryAid # Undefined /\ ctx.accessoryAid # 0
                onSet == ctx.onCharacteristic # Undefined /\ ctx.onCharacteristic # 0
                levelSet == ctx.batteryCharacteristic # Undefined
                              /\ ctx.batteryCharacteristic # 0
            IN /\ CanProxy(ctx, ctx.onCharacteristic, httpClient) <=> (aidSet /\ onSet)
               /\ CanProxy(ctx, ctx.batteryCharacteristic, httpClient)
                    <=> (aidSet /\ levelSet)

C19_Witness ==
  /\ launches = 2
  /\ connect = "getThrew"
  /\ httpClient
  /\ \E i \in DOMAIN proxies : Bound(i) /\ proxies[i].uuid = generate("5")

\* C20: when the promise chain of a didFinishLaunching event has run to its
\* end, it has called discoverDevices exactly once, however connectToBridge
\* went and whether or not discoverDevices threw.
C20_OneDiscoveryPerLaunch ==
  (launches > 0 /\ pc = "done") => chainRuns = 1

====
